---- MODULE Spec2Model ----
(***************************************************************************)
(* Scatter-gather VDIF reader / writer (scatgat).  A plan groups one       *)
(* SGPart per scatter-gather file.  Reading fans out one worker per part,  *)
(* joins them and stitches the staged blocks in timestamp order; writing   *)
(* stripes the caller's buffer over the parts in write-block sized chunks. *)
(***************************************************************************)
EXTENDS Integers, Sequences, FiniteSets, TLC

(* ------------------------------ bounds --------------------------------- *)
\* number of candidate paths, n_mod * n_disk
NPaths == 2
\* largest number of blocks in a file that is on disk before the run starts
MaxBlocks == 2
\* largest number of write_vdif_frames calls on one plan
MaxWrites == 2
\* longest buffer handed to one write_vdif_frames call, in frames
MaxFrames == 4
\* largest number of read_block_vdif_frames calls on one plan
MaxRandomReads == 1
\* last second (secs_inre) a frame of a file that is on disk before the run
\* starts can lie in
MaxSecs == 2
\* largest number of system calls (ftruncate, mremap) that fail under a write
\* plan
MaxFaults == 1
\* largest number of frames of a caller's stream that carry the same time
\* stamp (parallel streams), and largest step between two time stamps
MaxRepeat == 3
MaxStride == 3
\* frames per second of the streams
FPS == 2
\* file growth, in write blocks (the program uses 1000 for both)
INITIAL_SIZE_IN_BLOCKS == 1
GROWTH_SIZE_IN_BLOCKS == 1

(* ------------------------- program constants --------------------------- *)
SCATGAT_MODE_READ == 0
SCATGAT_MODE_WRITE == 1
\* bytes in one write block; scaled so that a block holds two 32 byte frames
WBLOCK_SIZE == 72
\* sizeof(struct file_header_tag), sizeof(struct wb_header_tag)
FHT_SIZE == 20
WBHT_SIZE == 8
\* VDIFHeader.w3.df_len of every frame in the model: 4 * 8 = 32 bytes
DF_LEN == 4

Paths == 1..NPaths

(* ------------------------------ frames --------------------------------- *)
\* A frame is its VDIF time stamp <<secs_inre, df_num_insec>>.
SecsRange == 0..MaxSecs
Stamps == SecsRange \X (0..(FPS - 1))

\* the time stamp that follows ts in a gap-free stream
NextStamp(ts) == IF ts[2] + 1 < FPS THEN <<ts[1], ts[2] + 1>> ELSE <<ts[1] + 1, 0>>

RECURSIVE Run(_, _)
\* n consecutive frames starting at ts
Run(ts, n) == IF n = 0 THEN <<>> ELSE <<ts>> \o Run(NextStamp(ts), n - 1)

\* lexicographic order on time stamps
TsLess(s, t) == s[1] < t[1] \/ (s[1] = t[1] /\ s[2] < t[2])
TsLeq(s, t) == s = t \/ TsLess(s, t)

RECURSIVE Flatten(_)
Flatten(ss) == IF ss = <<>> THEN <<>> ELSE Head(ss) \o Flatten(Tail(ss))

Range(s) == {s[i] : i \in DOMAIN s}

(* ------------------------------ SG files ------------------------------- *)
NoFile == [exists |-> FALSE, items |-> <<>>, len |-> 0]

FhtItem(pkt_size) ==
    [t |-> "fht", packet_size |-> pkt_size,
     block_size |-> pkt_size * (WBLOCK_SIZE \div pkt_size) + WBHT_SIZE,
     blocknum |-> 0, wb_size |-> 0, frames |-> <<>>, bytes |-> FHT_SIZE]

\* a block header whose wb_size leaves the header itself out
WbhtItemPayload(blocknum, pkt_size, n) ==
    [t |-> "wbht", packet_size |-> 0, block_size |-> 0,
     blocknum |-> blocknum, wb_size |-> pkt_size * n,
     frames |-> <<>>, bytes |-> WBHT_SIZE]

WbhtItem(blocknum, pkt_size, n) ==
    [t |-> "wbht", packet_size |-> 0, block_size |-> 0,
     blocknum |-> blocknum, wb_size |-> pkt_size * n + WBHT_SIZE,
     frames |-> <<>>, bytes |-> WBHT_SIZE]

DataItem(frames, pkt_size) ==
    [t |-> "data", packet_size |-> 0, block_size |-> 0,
     blocknum |-> 0, wb_size |-> 0,
     frames |-> frames, bytes |-> pkt_size * Len(frames)]

RECURSIVE SumBytes(_)
SumBytes(items) == IF items = <<>> THEN 0 ELSE Head(items).bytes + SumBytes(Tail(items))

RECURSIVE BlockItems(_, _, _)
BlockItems(blocks, k, pkt_size) ==
    IF blocks = <<>> THEN <<>>
    ELSE <<WbhtItem(k, pkt_size, Len(Head(blocks))), DataItem(Head(blocks), pkt_size)>>
         \o BlockItems(Tail(blocks), k + 1, pkt_size)

\* a well-formed SG file holding the given blocks
MkFile(blocks) ==
    LET items == <<FhtItem(DF_LEN * 8)>> \o BlockItems(blocks, 0, DF_LEN * 8)
    IN [exists |-> TRUE, items |-> items, len |-> SumBytes(items)]

\* the layout the SG access layer accepts: file header, then (block header,
\* payload) pairs, every block non-empty, nothing beyond the file length
ValidSG(f) ==
    /\ f.exists
    /\ Len(f.items) >= 3
    /\ Len(f.items) % 2 = 1
    /\ f.items[1].t = "fht"
    /\ \A i \in 2..Len(f.items) :
          IF i % 2 = 0
          THEN /\ f.items[i].t = "wbht"
               /\ f.items[i].wb_size = f.items[i + 1].bytes + WBHT_SIZE
          ELSE /\ f.items[i].t = "data"
               /\ f.items[i].frames # <<>>
    /\ SumBytes(f.items) = f.len

\* number of blocks, and the packets of block iblock (0-based)
sg_total_blks(f) == (Len(f.items) - 1) \div 2
sg_pkt_by_blk(f, iblock) == f.items[2 * iblock + 3].frames


(* ------------------------------ the state ------------------------------ *)
VARIABLES
    disk,   \* path -> file
    plan,   \* the SGPlan, or NoPlan
    pc,     \* where the caller is: "idle", inside a public call, "crashed"
    live,   \* parts whose worker thread has been created and not finished
    mask,   \* parts for which the running call created a thread
    loc,    \* locals of the running call
    ret,    \* the last public call and the value it returned
    out,    \* blocks copied to *vdif_buf by the last read call, in order
    made,   \* number of plans made so far
    wrote,  \* every frame handed to write_vdif_frames, in call order
    got,    \* every frame returned by read_next_block_vdif_frames, in order
    nwrites, \* number of write_vdif_frames calls so far
    nrandom, \* number of read_block_vdif_frames calls so far
    stream, \* the frames the caller is going to write, in order
    nfail,  \* number of system calls that have failed under the write plan
    hist    \* one record for every read_next_block_vdif_frames call that has
            \* returned frames: its value, the blocks it copied, the parts it created a
            \* thread for, the parts it merged and the parts it left staged

vars == <<disk, plan, pc, live, mask, loc, ret, out, made, wrote, got, nwrites, nrandom, stream, nfail, hist>>

NoPlan == [exists |-> FALSE, sgm |-> SCATGAT_MODE_READ, sgprt |-> <<>>, closed |-> FALSE]

\* appended and failed are not locals of the code: the frames the workers of
\* the running call have appended, and the workers of the call that gave up
NoLoc == [vdif_buf |-> <<>>, n_frames |-> 0, frames_written |-> 0,
          first_sg_idx |-> 0, thread_count |-> 0, iblock |-> 0,
          appended |-> 0, failed |-> 0, frames_estimate |-> 0]

n_sgprt(p) == Len(p.sgprt)

\* a caller that does not wait for its threads
threads_detached == TRUE

\* the pthread_join loop of a call has come to its end: every thread that
\* the call has created has finished
threads_joined == live = {}

(* --------------------------- memory management ------------------------- *)
\* SGInfo (with its SGMMInfo smi_*) and the SGPart fields in one record
init_sg_part(sgi) ==
    [name |-> sgi.name, pkt_size |-> sgi.pkt_size,
     first_secs |-> sgi.first_secs, first_frame |-> sgi.first_frame,
     sg_total_blks |-> sgi.sg_total_blks, sg_wr_pkts |-> sgi.sg_wr_pkts,
     smi_size |-> sgi.smi_size, maplen |-> sgi.maplen, mapok |-> sgi.mapok,
     iblock |-> 0, data_buf |-> <<>>, data_null |-> TRUE, n_frames |-> 0]

\* a clear that resets the frame count and keeps the buffer
clear_sg_part_frames(p) == [p EXCEPT !.n_frames = 0]

\* free the buffer of a part and reset its frame count
clear_sg_part_buffer(p) ==
    [p EXCEPT !.n_frames = 0, !.data_buf = <<>>, !.data_null = TRUE]

(* ------------------------- time ordering utilities --------------------- *)
Sign(a, b) == IF a < b THEN -1 ELSE IF a > b THEN 1 ELSE 0

compare_int_descend(a, b) == IF b < a THEN -1 ELSE IF b > a THEN 1 ELSE 0

\* a comparison that takes every two files for equal
compare_sg_info_equal(a, b) == 0

compare_sg_info(a, b) ==
    LET result == Sign(a.first_secs, b.first_secs)
    IN IF result = 0 THEN Sign(a.first_frame, b.first_frame) ELSE result

FIRST_VDIF(a) == a.data_buf[1]
LAST_VDIF(a) == a.data_buf[a.n_frames]

compare_sg_part(a, b) ==
    LET result == Sign(FIRST_VDIF(a)[1], FIRST_VDIF(b)[1])
    IN IF result = 0 THEN Sign(FIRST_VDIF(a)[2], FIRST_VDIF(b)[2]) ELSE result

\* a test that looks at the second in which a ends only
test_sg_parts_within(a, b) ==
    /\ FIRST_VDIF(b)[1] = LAST_VDIF(a)[1]
    /\ FIRST_VDIF(b)[2] >= FIRST_VDIF(a)[2]
    /\ FIRST_VDIF(b)[2] <= LAST_VDIF(a)[2] + 1

\* a test that also takes the frame that follows the last frame of a across
\* the end of a second
test_sg_parts_successor(a, b) ==
    \/ /\ FIRST_VDIF(a)[1] = LAST_VDIF(a)[1]
       /\ FIRST_VDIF(b)[1] = LAST_VDIF(a)[1]
       /\ FIRST_VDIF(b)[2] >= FIRST_VDIF(a)[2]
       /\ FIRST_VDIF(b)[2] <= LAST_VDIF(a)[2] + 1
    \/ /\ FIRST_VDIF(a)[1] # LAST_VDIF(a)[1]
       /\ FIRST_VDIF(b)[1] >= FIRST_VDIF(a)[1]
       /\ FIRST_VDIF(b)[1] <= LAST_VDIF(a)[1]
    \/ /\ FIRST_VDIF(b)[1] = LAST_VDIF(a)[1] + 1
       /\ FIRST_VDIF(b)[2] = 0

\* a test that takes every two blocks for contiguous
test_sg_parts_always(a, b) == TRUE

test_sg_parts_contiguous(a, b) ==
    LET secs_inre_a_last == LAST_VDIF(a)[1]
        secs_inre_a_first == FIRST_VDIF(a)[1]
        secs_inre_b_first == FIRST_VDIF(b)[1]
        df_num_insec_a_last == LAST_VDIF(a)[2]
        df_num_insec_a_first == FIRST_VDIF(a)[2]
        df_num_insec_b_first == FIRST_VDIF(b)[2]
    IN IF secs_inre_a_first = secs_inre_a_last
       THEN /\ secs_inre_b_first = secs_inre_a_last
            /\ df_num_insec_b_first >= df_num_insec_a_first
            /\ df_num_insec_b_first <= df_num_insec_a_last + 1
       ELSE IF secs_inre_b_first = secs_inre_a_first
            THEN df_num_insec_b_first >= df_num_insec_a_first
            ELSE IF secs_inre_b_first = secs_inre_a_last
                 THEN df_num_insec_b_first <= df_num_insec_a_last + 1
                 ELSE /\ secs_inre_b_first > secs_inre_a_first
                      /\ secs_inre_b_first < secs_inre_a_last

\* all orders of 1..n
Perms(n) == {f \in [1..n -> 1..n] : \A i, j \in 1..n : f[i] = f[j] => i = j}

\* qsort with compare_sg_info: some arrangement of s that the comparison
\* accepts as sorted (the order of equal elements is not specified)
qsort_sg_info(s) ==
    {[i \in 1..Len(s) |-> s[f[i]]] : f \in
        {g \in Perms(Len(s)) :
            \A i \in 1..(Len(s) - 1) : compare_sg_info(s[g[i]], s[g[i + 1]]) <= 0}}

\* qsort with compare_int_descend
qsort_int_descend(s) ==
    {[i \in 1..Len(s) |-> s[f[i]]] : f \in
        {g \in Perms(Len(s)) :
            \A i \in 1..(Len(s) - 1) : compare_int_descend(s[g[i]], s[g[i + 1]]) <= 0}}

\* an inner loop that never finds an earlier block
MinIdxKeep(sgprt, mapping, jj, last, idx_min_new) == idx_min_new

RECURSIVE MinIdx(_, _, _, _, _)
\* inner loop of the selection sort: jj runs from ii to last (1-based)
MinIdx(sgprt, mapping, jj, last, idx_min_new) ==
    IF jj > last THEN idx_min_new
    ELSE MinIdx(sgprt, mapping, jj + 1, last,
                IF compare_sg_part(sgprt[mapping[jj]], sgprt[mapping[idx_min_new]]) < 0
                THEN jj ELSE idx_min_new)

RECURSIVE SortLive(_, _, _, _)
\* outer loop of the selection sort over the live prefix
SortLive(sgprt, mapping, ii, last) ==
    IF ii > last THEN mapping
    ELSE LET idx_min_new == MinIdx(sgprt, mapping, ii, last, ii)
             swapped == [mapping EXCEPT ![ii] = mapping[idx_min_new],
                                        ![idx_min_new] = mapping[ii]]
         IN SortLive(sgprt, swapped, ii + 1, last)

\* a continuity loop that finds no chain at all
ChainBreakNone(sgprt, mapping, ii, nlive) == 0

RECURSIVE ChainBreakShort(_, _, _, _)
\* a continuity loop that counts one block too few
ChainBreakShort(sgprt, mapping, ii, nlive) ==
    IF ii > nlive - 1 THEN ii - 1
    ELSE IF ~test_sg_parts_contiguous(sgprt[mapping[ii]], sgprt[mapping[ii + 1]])
         THEN ii - 1
         ELSE ChainBreakShort(sgprt, mapping, ii + 1, nlive)

RECURSIVE ChainBreakFails(_, _, _, _)
\* a continuity loop that gives the whole chain up when it breaks
ChainBreakFails(sgprt, mapping, ii, nlive) ==
    IF ii > nlive - 1 THEN nlive
    ELSE IF ~test_sg_parts_contiguous(sgprt[mapping[ii]], sgprt[mapping[ii + 1]])
         THEN 0
         ELSE ChainBreakFails(sgprt, mapping, ii + 1, nlive)

RECURSIVE ChainBreak(_, _, _, _)
\* the continuity loop: the value of ii (1-based) when the loop ends
ChainBreak(sgprt, mapping, ii, nlive) ==
    IF ii > nlive - 1 THEN ii
    ELSE IF ~test_sg_parts_contiguous(sgprt[mapping[ii]], sgprt[mapping[ii + 1]])
         THEN ii
         ELSE ChainBreak(sgprt, mapping, ii + 1, nlive)

\* a merger that leaves the live blocks after the chain positive
map_sg_parts_unmarked(sgprt) ==
    LET n == Len(sgprt)
        init == [ii \in 1..n |-> IF sgprt[ii].n_frames > 0 THEN ii ELSE -ii]
        dead_nodes == Cardinality({ii \in 1..n : sgprt[ii].n_frames = 0})
        nlive == n - dead_nodes
        sorted == CHOOSE m \in qsort_int_descend(init) : TRUE
        bsort == SortLive(sgprt, sorted, 1, nlive)
    IN IF dead_nodes = n
       THEN [n_contiguous_blocks |-> 0, mapping |-> init]
       ELSE [n_contiguous_blocks |-> ChainBreak(sgprt, bsort, 1, nlive),
             mapping |-> bsort]

\* returns the number of contiguous blocks and the mapping (1-based part
\* numbers, negative for parts that are dead or not contiguous)
map_sg_parts_contiguous(sgprt) ==
    LET n == Len(sgprt)
        init == [ii \in 1..n |-> IF sgprt[ii].n_frames > 0 THEN ii ELSE -ii]
        dead_nodes == Cardinality({ii \in 1..n : sgprt[ii].n_frames = 0})
        nlive == n - dead_nodes
        sorted == CHOOSE m \in qsort_int_descend(init) : TRUE
        bsort == SortLive(sgprt, sorted, 1, nlive)
        return_value == ChainBreak(sgprt, bsort, 1, nlive)
        final == [jj \in 1..n |-> IF jj > return_value /\ jj <= nlive
                                  THEN -bsort[jj] ELSE bsort[jj]]
    IN IF dead_nodes = n
       THEN [n_contiguous_blocks |-> 0, mapping |-> init]
       ELSE [n_contiguous_blocks |-> return_value, mapping |-> final]


(* ------------------------------ SG access ------------------------------ *)
\* sg_open: fills an SGInfo from the file; mmfd_ok stands for smi.mmfd > 0
sg_open(path, f) ==
    IF ValidSG(f)
    THEN [mmfd_ok |-> TRUE, name |-> path,
          pkt_size |-> f.items[1].packet_size,
          first_secs |-> f.items[3].frames[1][1],
          first_frame |-> f.items[3].frames[1][2],
          sg_total_blks |-> sg_total_blks(f),
          sg_wr_pkts |-> (f.items[1].block_size - WBHT_SIZE) \div f.items[1].packet_size,
          smi_size |-> f.len, maplen |-> f.len, mapok |-> TRUE]
    ELSE [mmfd_ok |-> FALSE, name |-> path, pkt_size |-> 0,
          first_secs |-> 0, first_frame |-> 0, sg_total_blks |-> 0,
          sg_wr_pkts |-> 0, smi_size |-> 0, maplen |-> 0, mapok |-> FALSE]

IsOpen(sgi) == sgi.mmfd_ok

(* ------------------------ scatter gather reading ----------------------- *)
IsReadMode(p) == p.sgm = SCATGAT_MODE_READ
IsWriteMode(p) == p.sgm = SCATGAT_MODE_WRITE

\* a make_sg_read_plan that allocates the plan before it looks at valid_sgi
new_read_plan_always(old, sorted) ==
    [exists |-> TRUE, sgm |-> SCATGAT_MODE_READ,
     sgprt |-> [itmp \in 1..Len(sorted) |-> init_sg_part(sorted[itmp])],
     closed |-> FALSE]

\* *sgpln after make_sg_read_plan: with no valid file the function returns
\* before the plan is allocated and the caller's pointer is left as it was
new_read_plan(old, sorted) ==
    IF Len(sorted) = 0 THEN old
    ELSE [exists |-> TRUE, sgm |-> SCATGAT_MODE_READ,
          sgprt |-> [itmp \in 1..Len(sorted) |-> init_sg_part(sorted[itmp])],
          closed |-> FALSE]

make_sg_read_plan ==
    /\ pc = "idle"
    /\ ~plan.exists
    /\ LET sgi_buf == SelectSeq([p \in 1..NPaths |-> sg_open(p, disk[p])], IsOpen)
           valid_sgi == Len(sgi_buf)
       IN /\ ret' = [op |-> "make_sg_read_plan", val |-> valid_sgi]
          /\ \E sorted \in qsort_sg_info(sgi_buf) :
                plan' = new_read_plan(plan, sorted)
    /\ made' = made + 1
    /\ UNCHANGED <<disk, pc, live, mask, loc, out, wrote, got, nwrites, nrandom, stream, nfail, hist>>

\* the worker: stage block iblock of the part's file
read_block(p, f) ==
    IF p.iblock < p.sg_total_blks
    THEN [p EXCEPT !.n_frames = Len(sg_pkt_by_blk(f, p.iblock)),
                   !.data_buf = sg_pkt_by_blk(f, p.iblock),
                   !.data_null = FALSE]
    ELSE p

\* the worker when malloc returns NULL: sg_pkt_by_blk has set the frame
\* count, nothing is copied and the part is left without a buffer
read_block_nomem(p, f) ==
    IF p.iblock < p.sg_total_blks
    THEN [p EXCEPT !.n_frames = Len(sg_pkt_by_blk(f, p.iblock)),
                   !.data_buf = <<>>,
                   !.data_null = TRUE]
    ELSE p

\* malloc succeeds, or fails while fewer than MaxFaults calls have failed
MallocOutcomes == IF nfail < MaxFaults THEN {TRUE, FALSE} ELSE {TRUE}

sgthread_read_block(i) ==
    /\ pc \in {"read_next_block", "read_block"}
    /\ i \in live
    /\ \E ok \in MallocOutcomes :
          LET p == plan.sgprt[i]
              nomem == ~ok /\ p.iblock < p.sg_total_blks
          IN /\ plan' = [plan EXCEPT !.sgprt[i] =
                            IF nomem THEN read_block_nomem(p, disk[p.name])
                            ELSE read_block(p, disk[p.name])]
             /\ nfail' = IF nomem THEN nfail + 1 ELSE nfail
    /\ live' = live \ {i}
    /\ UNCHANGED <<disk, pc, mask, loc, ret, out, made, wrote, got, nwrites, nrandom, stream, hist>>

\* a part with a frame count and no buffer: the copy out of it reads through
\* a NULL pointer
NullStaged(sgprt) == \E i \in 1..Len(sgprt) : sgprt[i].n_frames > 0 /\ sgprt[i].data_null

\* sgprt[0].sgi->pkt_size is read on entry, before the mode check; in a plan
\* without parts the read is out of bounds and the call may fault
DerefFaults(p) == IF n_sgprt(p) = 0 THEN {TRUE, FALSE} ELSE {FALSE}

\* a launch test that reads the first block of a part and no other
NeedsReadOnce(p) == p.n_frames = 0 /\ p.iblock < 1 /\ p.iblock < p.sg_total_blks

\* a test that sends a reader to every part without staged frames
NeedsReadEmpty(p) == p.n_frames = 0

\* a test that sends a reader to every part that has blocks left
NeedsReadAlways(p) == p.iblock < p.sg_total_blks

\* which parts get a reader thread
NeedsRead(p) == p.n_frames = 0 /\ p.iblock < p.sg_total_blks

\* the call on a plan that is not in read mode
read_next_block_vdif_frames_reject ==
    /\ pc = "idle"
    /\ plan.exists /\ ~plan.closed
    /\ ~IsReadMode(plan)
    /\ \E fault \in DerefFaults(plan) :
          IF fault
          THEN pc' = "crashed" /\ ret' = ret
          ELSE pc' = pc /\ ret' = [op |-> "read_next_block_vdif_frames", val |-> -1]
    /\ UNCHANGED <<disk, plan, live, mask, loc, out, made, wrote, got, nwrites, nrandom, stream, nfail, hist>>

\* the call on a read mode plan, up to the launch of the reader threads
RECURSIVE frames_estimate_launched(_, _)
\* an estimate that counts the parts a thread is created for only
frames_estimate_launched(sgprt, ithread) ==
    IF ithread >= Len(sgprt) THEN 0
    ELSE (IF NeedsRead(sgprt[ithread + 1]) THEN sgprt[ithread + 1].sg_wr_pkts ELSE 0)
         + frames_estimate_launched(sgprt, ithread + 1)

RECURSIVE frames_estimate(_, _)
\* the number of frames the output buffer is allocated for: sg_wr_pkts of
\* every part from ithread (0-based) on
frames_estimate(sgprt, ithread) ==
    IF ithread >= Len(sgprt) THEN 0
    ELSE sgprt[ithread + 1].sg_wr_pkts + frames_estimate(sgprt, ithread + 1)

read_next_block_vdif_frames_call ==
    /\ pc = "idle"
    /\ plan.exists /\ ~plan.closed
    /\ IsReadMode(plan)
    /\ mask' = {i \in 1..n_sgprt(plan) : NeedsRead(plan.sgprt[i])}
    /\ live' = mask'
    /\ pc' = "read_next_block"
    /\ loc' = [NoLoc EXCEPT !.frames_estimate = frames_estimate(plan.sgprt, 0)]
    /\ UNCHANGED <<disk, plan, ret, out, made, wrote, got, nwrites, nrandom, stream, nfail, hist>>

\* a return value that counts the blocks copied, not their frames
frames_read_blocks(blocks) == Len(blocks)

\* value returned once the contiguous blocks have been copied
frames_read_of(blocks) == Len(Flatten(blocks))

\* a join loop that moves the block counter on by two
join_read_threads_twice(sgprt, created) ==
    [i \in 1..Len(sgprt) |->
        IF i \in created /\ sgprt[i].n_frames > 0
        THEN [sgprt[i] EXCEPT !.iblock = @ + 2]
        ELSE sgprt[i]]

\* a join loop that moves the block counter of every part with frames on
join_read_threads_all(sgprt, created) ==
    [i \in 1..Len(sgprt) |->
        IF sgprt[i].n_frames > 0
        THEN [sgprt[i] EXCEPT !.iblock = @ + 1]
        ELSE sgprt[i]]

\* the parts after the join loop: the block counter of a part moves on when
\* its thread was created and left frames behind
join_read_threads(sgprt, created) ==
    [i \in 1..Len(sgprt) |->
        IF i \in created /\ sgprt[i].n_frames > 0
        THEN [sgprt[i] EXCEPT !.iblock = @ + 1]
        ELSE sgprt[i]]

read_next_block_vdif_frames_join ==
    /\ pc = "read_next_block"
    /\ threads_joined
    /\ IF NullStaged(plan.sgprt)
       THEN /\ pc' = "crashed"
            /\ UNCHANGED <<plan, out, got, ret, hist, mask>>
       ELSE LET joined == join_read_threads(plan.sgprt, mask)
                m == map_sg_parts_contiguous(joined)
                n_contiguous_blocks == m.n_contiguous_blocks
                mapping == m.mapping
                copied == [isgprt \in 1..n_contiguous_blocks |->
                              SubSeq(joined[mapping[isgprt]].data_buf, 1,
                                     joined[mapping[isgprt]].n_frames)]
                merged == {mapping[isgprt] : isgprt \in 1..n_contiguous_blocks}
            IN /\ plan' = [plan EXCEPT !.sgprt = [i \in 1..n_sgprt(plan) |->
                               IF i \in merged THEN clear_sg_part_buffer(joined[i]) ELSE joined[i]]]
               /\ out' = copied
               /\ got' = got \o Flatten(copied)
               /\ ret' = [op |-> "read_next_block_vdif_frames", val |-> frames_read_of(copied)]
               /\ hist' = IF frames_read_of(copied) = 0 THEN hist
                          ELSE Append(hist, [val |-> frames_read_of(copied), blocks |-> copied,
                                             created |-> mask, merged |-> merged,
                                             kept |-> {i \in 1..n_sgprt(plan) \ merged :
                                                         joined[i].n_frames > 0}])
               /\ pc' = "idle"
               /\ mask' = {}
    /\ UNCHANGED <<disk, live, loc, made, wrote, nwrites, nrandom, stream, nfail>>

read_block_vdif_frames_reject(iblock) ==
    /\ pc = "idle"
    /\ plan.exists /\ ~plan.closed
    /\ ~IsReadMode(plan)
    /\ \E fault \in DerefFaults(plan) :
          IF fault
          THEN pc' = "crashed" /\ ret' = ret
          ELSE pc' = pc /\ ret' = [op |-> "read_block_vdif_frames", val |-> -1]
    /\ UNCHANGED <<disk, plan, live, mask, loc, out, made, wrote, got, nwrites, nrandom, stream, nfail, hist>>

\* the call on a read mode plan: a reader thread for every part; the thread
\* is handed the part, and the iblock argument is not passed on
read_block_vdif_frames_call(iblock) ==
    /\ pc = "idle"
    /\ plan.exists /\ ~plan.closed
    /\ IsReadMode(plan)
    /\ mask' = 1..n_sgprt(plan)
    /\ live' = mask'
    /\ pc' = "read_block"
    /\ loc' = [NoLoc EXCEPT !.iblock = iblock,
                            !.frames_estimate = frames_estimate(plan.sgprt, 0)]
    /\ nrandom' = nrandom + 1
    /\ UNCHANGED <<disk, plan, ret, out, made, wrote, got, nwrites, stream, nfail, hist>>

read_block_vdif_frames_join ==
    /\ pc = "read_block"
    /\ threads_joined
    /\ IF NullStaged(plan.sgprt)
       THEN /\ pc' = "crashed"
            /\ UNCHANGED <<out, ret, mask>>
       ELSE LET staged == SelectSeq(plan.sgprt, LAMBDA p : p.n_frames > 0)
                copied == [i \in 1..Len(staged) |->
                              SubSeq(staged[i].data_buf, 1, staged[i].n_frames)]
            IN /\ out' = copied
               /\ ret' = [op |-> "read_block_vdif_frames", val |-> frames_read_of(copied)]
               /\ pc' = "idle"
               /\ mask' = {}
    /\ UNCHANGED <<disk, plan, live, loc, made, wrote, got, nwrites, nrandom, stream, nfail, hist>>

\* sg_close of every part (whatever the mode of the plan)
close_sg_read_plan ==
    /\ pc = "idle"
    /\ plan.exists /\ ~plan.closed
    /\ plan' = [plan EXCEPT !.closed = TRUE,
                            !.sgprt = [i \in 1..n_sgprt(plan) |->
                                         [plan.sgprt[i] EXCEPT !.mapok = FALSE, !.maplen = 0]]]
    /\ ret' = [op |-> "close_sg_read_plan", val |-> 0]
    /\ UNCHANGED <<disk, pc, live, mask, loc, out, made, wrote, got, nwrites, nrandom, stream, nfail, hist>>

\* a free_sg_plan that clears the buffer of every part, whatever the mode
frees_data_buf_any(sgm, p) == ~p.data_null

\* free_sg_plan hands data_buf of the part to free: clear_sg_part_buffer is
\* called in read mode only, and frees a buffer that is not NULL
frees_data_buf(sgm, p) == sgm = SCATGAT_MODE_READ /\ ~p.data_null

\* freed is not a value of the code: the parts whose data_buf has been freed
free_sg_plan ==
    /\ pc = "idle"
    /\ plan.exists /\ plan.closed
    /\ plan' = NoPlan
    /\ ret' = [op |-> "free_sg_plan", val |-> 0,
               freed |-> {i \in 1..n_sgprt(plan) : frees_data_buf(plan.sgm, plan.sgprt[i])}]
    /\ UNCHANGED <<disk, pc, live, mask, loc, out, made, wrote, got, nwrites, nrandom, stream, nfail, hist>>

(* ------------------------ scatter gather writing ----------------------- *)
EmptyFile(len) == [exists |-> TRUE, items |-> <<>>, len |-> len]

\* what open / ftruncate / mmap of one candidate path can come to
FillOutcomes == {"ok", "open", "ftruncate", "mmap"}

\* the file left on disk by sgthread_fill_write_sgi
fill_write_file(f, outcome) ==
    IF outcome = "open" THEN f
    ELSE IF outcome = "ftruncate" THEN EmptyFile(0)
    ELSE EmptyFile(INITIAL_SIZE_IN_BLOCKS * WBLOCK_SIZE)

\* the SGInfo returned by sgthread_fill_write_sgi (mmfd_ok: not NULL)
sgthread_fill_write_sgi(path, outcome) ==
    [mmfd_ok |-> outcome = "ok", name |-> path, pkt_size |-> 0,
     first_secs |-> 0, first_frame |-> 0, sg_total_blks |-> 0, sg_wr_pkts |-> 0,
     smi_size |-> 0, maplen |-> INITIAL_SIZE_IN_BLOCKS * WBLOCK_SIZE, mapok |-> TRUE]

make_sg_write_plan(outcomes) ==
    /\ pc = "idle"
    /\ ~plan.exists
    /\ LET sgi_tmp == SelectSeq([p \in 1..NPaths |-> sgthread_fill_write_sgi(p, outcomes[p])], IsOpen)
           valid_sgi == Len(sgi_tmp)
       IN /\ plan' = [exists |-> TRUE, sgm |-> SCATGAT_MODE_WRITE,
                      sgprt |-> [itmp \in 1..valid_sgi |-> init_sg_part(sgi_tmp[itmp])],
                      closed |-> FALSE]
          /\ ret' = [op |-> "make_sg_write_plan", val |-> valid_sgi]
    /\ disk' = [p \in Paths |-> fill_write_file(disk[p], outcomes[p])]
    /\ made' = made + 1
    /\ UNCHANGED <<pc, live, mask, loc, out, wrote, got, nwrites, nrandom, stream, nfail, hist>>

\* how a resize can end
ResizeOutcomes == {"ok", "ftruncate", "mremap"}

\* the outcomes left once MaxFaults system calls have failed
Outcomes == IF nfail < MaxFaults THEN ResizeOutcomes ELSE {"ok"}

\* a resize whose new mapping does not hold what the old one held
resize_to_sg_fresh(st, new_size, outcome) ==
    IF outcome = "ftruncate" THEN [st EXCEPT !.status = "failed"]
    ELSE [st EXCEPT !.f.len = new_size, !.f.items = <<>>, !.p.maplen = new_size]

\* resize_to_sg: st is [p, f, status]; ftruncate, then mremap
resize_to_sg(st, new_size, outcome) ==
    IF outcome = "ftruncate" THEN [st EXCEPT !.status = "failed"]
    ELSE IF outcome = "mremap" \/ ~st.p.mapok
         THEN [st EXCEPT !.f.len = new_size, !.p.mapok = FALSE, !.status = "failed"]
         ELSE [st EXCEPT !.f.len = new_size, !.p.maplen = new_size]

\* write_to_sg: resize if the item does not fit, then copy it at the offset;
\* copying through a mapping that mremap has lost faults
write_to_sg(st, item, outcome) ==
    IF st.status # "ok" THEN st
    ELSE LET r == IF st.p.mapok /\ st.p.smi_size + item.bytes > st.p.maplen
                  THEN resize_to_sg(st, st.p.maplen + GROWTH_SIZE_IN_BLOCKS * WBLOCK_SIZE, outcome)
                  ELSE st
         IN IF r.status # "ok" THEN r
            ELSE IF ~r.p.mapok \/ r.p.smi_size + item.bytes > r.p.maplen
                 THEN [r EXCEPT !.status = "crashed"]
                 ELSE [r EXCEPT !.f.items = Append(@, item),
                                !.p.smi_size = @ + item.bytes]

\* the worker: file header on the first block, block header, payload
write_block(p, f, outcome) ==
    LET st0 == [p |-> p, f |-> f, status |-> "ok"]
        st1 == IF p.iblock = 0 THEN write_to_sg(st0, FhtItem(p.pkt_size), outcome) ELSE st0
        st2 == write_to_sg(st1, WbhtItem(p.iblock, p.pkt_size, p.n_frames), outcome)
        st3 == write_to_sg(st2, DataItem(SubSeq(p.data_buf, 1, p.n_frames), p.pkt_size), outcome)
    IN IF st3.status = "ok" THEN [st3 EXCEPT !.p.iblock = @ + 1] ELSE st3

sgthread_write_block(i, outcome) ==
    /\ pc = "write_vdif_frames"
    /\ i \in live
    /\ LET st == write_block(plan.sgprt[i], disk[plan.sgprt[i].name], outcome)
       IN /\ plan' = [plan EXCEPT !.sgprt[i] = st.p]
          /\ disk' = [disk EXCEPT ![plan.sgprt[i].name] = st.f]
          /\ IF st.status = "crashed"
             THEN pc' = "crashed" /\ live' = live
             ELSE pc' = pc /\ live' = live \ {i}
          /\ loc' = IF st.status = "ok"
                    THEN [loc EXCEPT !.appended = @ + plan.sgprt[i].n_frames]
                    ELSE [loc EXCEPT !.failed = @ + 1]
          /\ nfail' = IF st.status = "failed" THEN nfail + 1 ELSE nfail
    /\ UNCHANGED <<mask, ret, out, made, wrote, got, nwrites, nrandom, stream, hist>>

first_write_sg_plan(p) == \A ii \in 1..n_sgprt(p) : ~(p.sgprt[ii].iblock > 0)

\* a choice of the first part that always takes the first part of the plan
FirstShortZero(sgprt, ithread, first_sg_idx) == 0

RECURSIVE FirstShort(_, _, _)
\* the first part with the smallest block counter (0-based index)
FirstShort(sgprt, ithread, first_sg_idx) ==
    IF ithread >= Len(sgprt) THEN first_sg_idx
    ELSE FirstShort(sgprt, ithread + 1,
                    IF sgprt[ithread + 1].iblock < sgprt[first_sg_idx + 1].iblock
                    THEN ithread ELSE first_sg_idx)

\* a cycle that binds its threads to the parts from the first part of the
\* plan on, whatever the first part of the call is
this_sg_idx_thread(ithread, first_sg_idx, n) == ithread % n

\* a cycle that binds every thread to the first part of the cycle
this_sg_idx_first(ithread, first_sg_idx, n) == first_sg_idx % n

\* the part (0-based) that thread ithread of a cycle writes to
this_sg_idx(ithread, first_sg_idx, n) == (ithread + first_sg_idx) % n

\* a pointer that stays at the start of the caller's buffer
chunk_at_start(vdif_buf, frames_written) == vdif_buf

\* the pointer handed to a writer: into the caller's buffer, past the frames
\* given out so far
chunk_at(vdif_buf, frames_written) == SubSeq(vdif_buf, frames_written + 1, Len(vdif_buf))

RECURSIVE LaunchCycle(_, _, _)
\* the thread launching loop of one write cycle: c is
\* [sgprt, frames_written, thread_count, spawned]
LaunchCycle(c, l, ithread) ==
    IF ~(ithread < Len(c.sgprt) /\ c.frames_written < l.n_frames) THEN c
    ELSE LET idx == this_sg_idx(ithread, l.first_sg_idx, Len(c.sgprt)) + 1
             frames_per_block == WBLOCK_SIZE \div c.sgprt[1].pkt_size
             left == l.n_frames - c.frames_written
             n == IF left < frames_per_block THEN left ELSE frames_per_block
         IN LaunchCycle(
              [sgprt |-> [c.sgprt EXCEPT
                            ![idx].data_buf = chunk_at(l.vdif_buf, c.frames_written),
                            ![idx].data_null = FALSE,
                            ![idx].n_frames = n],
               frames_written |-> c.frames_written + n,
               thread_count |-> c.thread_count + 1,
               spawned |-> c.spawned \cup {idx}],
              l, ithread + 1)

\* the properties set by the first write, from the first header of the buffer
fill_first_write(p, vdif_buf) ==
    [p EXCEPT !.pkt_size = DF_LEN * 8,
              !.first_secs = vdif_buf[1][1],
              !.first_frame = vdif_buf[1][2]]

\* the call on a plan that is not in write mode
write_vdif_frames_reject(vdif_buf, n_frames) ==
    /\ pc = "idle"
    /\ plan.exists /\ ~plan.closed
    /\ ~IsWriteMode(plan)
    /\ ret' = [op |-> "write_vdif_frames", val |-> -1]
    /\ UNCHANGED <<disk, plan, pc, live, mask, loc, out, made, wrote, got, nwrites, nrandom, stream, nfail, hist>>

\* the call on a write mode plan, up to the write loop; in a plan without
\* parts the read of sgprt[0].sgi->pkt_size is out of bounds and may fault
write_vdif_frames_call(vdif_buf, n_frames) ==
    /\ pc = "idle"
    /\ plan.exists /\ ~plan.closed
    /\ IsWriteMode(plan)
    /\ \E fault \in DerefFaults(plan) :
          IF fault
          THEN /\ pc' = "crashed"
               /\ UNCHANGED <<plan, loc>>
          ELSE /\ pc' = "write_vdif_frames"
               /\ LET sgprt == IF first_write_sg_plan(plan)
                               THEN [ii \in 1..n_sgprt(plan) |->
                                       fill_first_write(plan.sgprt[ii], vdif_buf)]
                               ELSE plan.sgprt
                  IN /\ plan' = [plan EXCEPT !.sgprt = sgprt]
                     /\ loc' = [NoLoc EXCEPT !.vdif_buf = vdif_buf, !.n_frames = n_frames,
                                             !.first_sg_idx = FirstShort(sgprt, 1, 0)]
    /\ live' = {}
    /\ mask' = {}
    /\ wrote' = wrote \o SubSeq(vdif_buf, 1, n_frames)
    /\ nwrites' = nwrites + 1
    /\ UNCHANGED <<disk, ret, out, made, got, nrandom, stream, nfail, hist>>

\* join the threads of the last cycle, then launch the next cycle
write_vdif_frames_cycle ==
    /\ pc = "write_vdif_frames"
    /\ threads_joined
    /\ loc.frames_written < loc.n_frames
    /\ LET c == LaunchCycle([sgprt |-> plan.sgprt, frames_written |-> loc.frames_written,
                             thread_count |-> 0, spawned |-> {}], loc, 0)
       IN /\ plan' = [plan EXCEPT !.sgprt = c.sgprt]
          /\ loc' = [loc EXCEPT !.frames_written = c.frames_written,
                                !.thread_count = c.thread_count]
          /\ live' = c.spawned
          /\ mask' = c.spawned
    /\ UNCHANGED <<disk, pc, ret, out, made, wrote, got, nwrites, nrandom, stream, nfail, hist>>

\* join the threads of the last cycle and return
write_vdif_frames_return ==
    /\ pc = "write_vdif_frames"
    /\ threads_joined
    /\ ~(loc.frames_written < loc.n_frames)
    /\ ret' = [op |-> "write_vdif_frames", val |-> loc.frames_written]
    /\ pc' = "idle"
    /\ mask' = {}
    /\ UNCHANGED <<disk, plan, live, loc, out, made, wrote, got, nwrites, nrandom, stream, nfail, hist>>

\* a close that leaves the file of a part at its mapped length
close_write_part_keep(st, outcome) ==
    IF st.p.smi_size = 0
    THEN [st EXCEPT !.f = NoFile, !.p.smi_size = st.p.maplen]
    ELSE st

\* close one part of a plan being closed as a write plan
close_write_part(st, outcome) ==
    IF st.p.smi_size # st.p.maplen \/ ~st.p.mapok
    THEN IF st.p.smi_size = 0
         THEN [st EXCEPT !.f = NoFile, !.p.smi_size = st.p.maplen]
         ELSE [resize_to_sg(st, st.p.smi_size, outcome) EXCEPT !.status = "ok"]
    ELSE st

close_sg_write_plan(outcome) ==
    /\ pc = "idle"
    /\ plan.exists /\ ~plan.closed
    /\ LET closed == [ii \in 1..n_sgprt(plan) |->
                        close_write_part([p |-> plan.sgprt[ii], f |-> disk[plan.sgprt[ii].name],
                                          status |-> "ok"], outcome)]
       IN /\ plan' = [plan EXCEPT !.closed = TRUE,
                                  !.sgprt = [ii \in 1..n_sgprt(plan) |->
                                               [closed[ii].p EXCEPT !.mapok = FALSE]]]
          /\ disk' = [q \in Paths |->
                        IF \E ii \in 1..n_sgprt(plan) : plan.sgprt[ii].name = q
                        THEN closed[CHOOSE ii \in 1..n_sgprt(plan) : plan.sgprt[ii].name = q].f
                        ELSE disk[q]]
    /\ ret' = [op |-> "close_sg_write_plan", val |-> 0]
    /\ nfail' = IF outcome = "ok" THEN nfail ELSE nfail + 1
    /\ UNCHANGED <<pc, live, mask, loc, out, made, wrote, got, nwrites, nrandom, stream, hist>>

(* --------------------------- files on disk ----------------------------- *)
\* frames in a full write block of a file in the model
FramesPerBlock == WBLOCK_SIZE \div (DF_LEN * 8)

NStamps == (MaxSecs + 1) * FPS
StampAt(i) == <<i \div FPS, i % FPS>>

\* a recorded file: blocks in time order that do not overlap, all of them
\* full except possibly the last
BlockStarts ==
    UNION {{f \in [1..n -> 0..(NStamps - 1)] :
              \A i \in 1..(n - 1) : f[i + 1] >= f[i] + FramesPerBlock} : n \in 1..MaxBlocks}

RecordedFiles ==
    {MkFile([i \in 1..Len(st) |->
               Run(StampAt(st[i]), IF i = Len(st) THEN lastlen ELSE FramesPerBlock)]) :
        st \in BlockStarts, lastlen \in 1..FramesPerBlock}

\* a file recorded from parallel streams: as a recorded file, but a block can
\* start with the time stamp the block before it ends with
ParallelStarts ==
    UNION {{f \in [1..n -> 0..(NStamps - 1)] :
              \A i \in 1..(n - 1) : f[i + 1] >= f[i] + FramesPerBlock - 1} : n \in 1..MaxBlocks}

ParallelFiles ==
    {MkFile([i \in 1..Len(st) |->
               Run(StampAt(st[i]), IF i = Len(st) THEN lastlen ELSE FramesPerBlock)]) :
        st \in ParallelStarts, lastlen \in 1..FramesPerBlock}

(* ------------------------- the caller's streams ------------------------ *)
StreamLen == MaxFrames * MaxWrites

\* a stream in time order: every time stamp is carried by rep frames, and
\* the time stamps are stride frame periods apart
StreamOf(rep, stride) ==
    [j \in 1..StreamLen |-> StampAt(((j - 1) \div rep) * stride)]

\* a gap-free stream, a stream with gaps, parallel streams
Streams == {StreamOf(1, 1), StreamOf(1, MaxStride), StreamOf(MaxRepeat, 1)}

\* the buffer of the next write call: the next n_frames frames of the stream
NextBuffer(n_frames) == SubSeq(stream, Len(wrote) + 1, Len(wrote) + n_frames)

TypeOK ==
    /\ pc \in {"idle", "read_next_block", "read_block", "write_vdif_frames", "crashed"}
    /\ live \subseteq 1..n_sgprt(plan)
    /\ mask \subseteq 1..n_sgprt(plan)
    /\ plan.sgm \in {SCATGAT_MODE_READ, SCATGAT_MODE_WRITE}
    /\ nfail \in 0..MaxFaults
    /\ Len(wrote) <= StreamLen

(* ---------------------------- specifications --------------------------- *)
InitCommon ==
    /\ plan = NoPlan
    /\ pc = "idle"
    /\ live = {}
    /\ mask = {}
    /\ loc = NoLoc
    /\ ret = [op |-> "none", val |-> 0]
    /\ out = <<>>
    /\ made = 0
    /\ wrote = <<>>
    /\ got = <<>>
    /\ nwrites = 0
    /\ nrandom = 0
    /\ nfail = 0
    /\ hist = <<>>

\* recording and playback: a write plan on empty disks, then a read plan on
\* the files the write plan has left
Init ==
    /\ disk = [p \in Paths |-> NoFile]
    /\ stream \in Streams
    /\ InitCommon

Next ==
    \/ (made = 0 /\ \E outcomes \in [Paths -> FillOutcomes] : make_sg_write_plan(outcomes))
    \/ (nwrites < MaxWrites /\ \E n_frames \in 1..MaxFrames :
            write_vdif_frames_call(NextBuffer(n_frames), n_frames))
    \/ write_vdif_frames_cycle
    \/ \E i \in 1..NPaths : \E outcome \in Outcomes : sgthread_write_block(i, outcome)
    \/ write_vdif_frames_return
    \/ read_next_block_vdif_frames_reject
    \/ \E iblock \in 0..MaxBlocks : read_block_vdif_frames_reject(iblock)
    \/ (IsWriteMode(plan) /\ \E outcome \in Outcomes : close_sg_write_plan(outcome))
    \/ free_sg_plan
    \/ (made = 1 /\ make_sg_read_plan)
    \/ read_next_block_vdif_frames_call
    \/ \E i \in 1..NPaths : sgthread_read_block(i)
    \/ read_next_block_vdif_frames_join
    \/ \E n_frames \in 1..MaxFrames :
            write_vdif_frames_reject(SubSeq(stream, 1, n_frames), n_frames)
    \/ (IsReadMode(plan) /\ close_sg_read_plan)

Spec == Init /\ [][Next]_vars

\* playback of files that are on disk before the run starts
InitRead ==
    /\ disk \in [Paths -> RecordedFiles \cup {NoFile}]
    /\ stream = <<>>
    /\ InitCommon

NextRead ==
    \/ (made = 0 /\ make_sg_read_plan)
    \/ read_next_block_vdif_frames_call
    \/ \E i \in 1..NPaths : sgthread_read_block(i)
    \/ read_next_block_vdif_frames_join
    \/ (nrandom < MaxRandomReads /\ \E iblock \in 0..MaxBlocks : read_block_vdif_frames_call(iblock))
    \/ read_block_vdif_frames_join
    \/ close_sg_read_plan
    \/ free_sg_plan

SpecRead == InitRead /\ [][NextRead]_vars

\* every writer thread created runs to its end, and a write_vdif_frames
\* call whose threads are joined goes on with its next cycle or returns
WriteFairness ==
    /\ WF_vars(write_vdif_frames_cycle)
    /\ WF_vars(\E i \in 1..NPaths : \E outcome \in Outcomes : sgthread_write_block(i, outcome))
    /\ WF_vars(write_vdif_frames_return)

\* recording and playback with running threads and calls that go on
SpecWrite == Init /\ [][Next]_vars /\ WriteFairness

\* playback by a caller that goes on calling read_next_block_vdif_frames and
\* nothing else
NextDrain ==
    \/ (made = 0 /\ make_sg_read_plan)
    \/ read_next_block_vdif_frames_call
    \/ \E i \in 1..NPaths : sgthread_read_block(i)
    \/ read_next_block_vdif_frames_join

\* every thread of a read_next_block_vdif_frames call has been joined and
\* the call has not yet come to its end; read_next_block_vdif_frames_join
\* is enabled in these states and in no other, and it leaves them
CallJoined == pc = "read_next_block" /\ threads_joined

\* the caller makes the plan and goes on calling, every thread created runs
\* to its end, and a call whose threads are joined comes to its end: weak
\* fairness of each of the four steps, written for the last one as the
\* states in which it is enabled, which no run stays in for ever
DrainFairness ==
    /\ WF_vars(made = 0 /\ make_sg_read_plan)
    /\ WF_vars(read_next_block_vdif_frames_call)
    /\ WF_vars(\E i \in 1..NPaths : sgthread_read_block(i))
    /\ []<>(~CallJoined)

SpecDrain == InitRead /\ [][NextDrain]_vars /\ DrainFairness

\* playback of files recorded from parallel streams
InitParallel ==
    /\ disk \in [Paths -> ParallelFiles \cup {NoFile}]
    /\ stream = <<>>
    /\ InitCommon

SpecParallel == InitParallel /\ [][NextRead]_vars

\* recording and playback with random access: every public call
NextAll ==
    \/ Next
    \/ (nrandom < MaxRandomReads /\ \E iblock \in 0..MaxBlocks : read_block_vdif_frames_call(iblock))
    \/ read_block_vdif_frames_join

SpecAll == Init /\ [][NextAll]_vars

\* a caller that closes a plan with the function of the other mode: both
\* functions print a message on the wrong mode and go on
NextClose ==
    \/ Next
    \/ (IsWriteMode(plan) /\ close_sg_read_plan)
    \/ (IsReadMode(plan) /\ \E outcome \in Outcomes : close_sg_write_plan(outcome))

SpecClose == Init /\ [][NextClose]_vars

(* --------------------- the merger on staged blocks --------------------- *)
\* the parts of a plan handed to the merger, the time stamps of their blocks
MergeParts == 3
MergeSecs == 2
MergeFrames == 2

\* the time stamps of the two blocks handed to the contiguity test
PairSecs == 3
PairFrames == 3

\* the staged blocks whose first and last frame carry time stamps below
\* (secs, frames); the frames between the two are not looked at
StagedBlocks(secs, frames) ==
    LET stamps == (0..(secs - 1)) \X (0..(frames - 1))
    IN {<<first, last>> : first \in stamps, last \in stamps}

\* part number ii of a read plan after its thread has been joined: data_buf
\* holds the block, or the part has nothing left
StagedPart(ii, buf) ==
    [name |-> ii, pkt_size |-> DF_LEN * 8,
     first_secs |-> 0, first_frame |-> 0,
     sg_total_blks |-> 1, sg_wr_pkts |-> FramesPerBlock,
     smi_size |-> 0, maplen |-> 0, mapok |-> TRUE,
     iblock |-> IF buf = <<>> THEN 0 ELSE 1,
     data_buf |-> buf, data_null |-> buf = <<>>, n_frames |-> Len(buf)]

\* the plans the merger and the contiguity test are applied to
MergeInputs ==
    {[ii \in 1..MergeParts |-> StagedPart(ii, bufs[ii])] :
        bufs \in [1..MergeParts -> StagedBlocks(MergeSecs, MergeFrames) \cup {<<>>}]}
    \cup
    {[ii \in 1..2 |-> StagedPart(ii, bufs[ii])] :
        bufs \in [1..2 -> StagedBlocks(PairSecs, PairFrames)]}

InitMerge ==
    /\ disk = [p \in Paths |-> NoFile]
    /\ stream = <<>>
    /\ plan \in {[exists |-> TRUE, sgm |-> SCATGAT_MODE_READ, sgprt |-> sgprt,
                  closed |-> FALSE] : sgprt \in MergeInputs}
    /\ pc = "idle"
    /\ live = {}
    /\ mask = {}
    /\ loc = NoLoc
    /\ ret = [op |-> "none", val |-> 0]
    /\ out = <<>>
    /\ made = 1
    /\ wrote = <<>>
    /\ got = <<>>
    /\ nwrites = 0
    /\ nrandom = 0
    /\ nfail = 0
    /\ hist = <<>>

\* the merger applied to the parts of the plan; ret keeps what it returns
map_sg_parts_contiguous_call ==
    /\ pc = "idle"
    /\ LET m == map_sg_parts_contiguous(plan.sgprt)
       IN ret' = [op |-> "map_sg_parts_contiguous", val |-> m.n_contiguous_blocks,
                  mapping |-> m.mapping]
    /\ UNCHANGED <<disk, plan, pc, live, mask, loc, out, made, wrote, got, nwrites, nrandom, stream, nfail, hist>>

\* the contiguity test applied to two staged blocks of the plan
test_sg_parts_contiguous_call(a, b) ==
    /\ pc = "idle"
    /\ plan.sgprt[a].n_frames > 0
    /\ plan.sgprt[b].n_frames > 0
    /\ ret' = [op |-> "test_sg_parts_contiguous",
               val |-> IF test_sg_parts_contiguous(plan.sgprt[a], plan.sgprt[b])
                       THEN 1 ELSE 0,
               a |-> a, b |-> b]
    /\ UNCHANGED <<disk, plan, pc, live, mask, loc, out, made, wrote, got, nwrites, nrandom, stream, nfail, hist>>

NextMerge ==
    \/ map_sg_parts_contiguous_call
    \/ \E a, b \in 1..n_sgprt(plan) : test_sg_parts_contiguous_call(a, b)

SpecMerge == InitMerge /\ [][NextMerge]_vars

(* ------------------------------ properties ----------------------------- *)
Count(x, s) == Cardinality({j \in DOMAIN s : s[j] = x})

\* the same frames, each the same number of times
SameFrames(s, t) ==
    /\ Len(s) = Len(t)
    /\ \A x \in Range(s) \cup Range(t) : Count(x, s) = Count(x, t)

\* the payload frames of a file, and of all files, in file order
PayloadOf(f) == Flatten([k \in 1..Len(f.items) |-> f.items[k].frames])
Payload == Flatten([p \in 1..NPaths |-> PayloadOf(disk[p])])

\* the paths sg_open accepts
ValidPaths == {p \in Paths : ValidSG(disk[p])}

\* read_next_block_vdif_frames / read_block_vdif_frames / write_vdif_frames
\* has just returned
NextBlockReturned == pc = "idle" /\ ret.op = "read_next_block_vdif_frames"
BlockReturned == pc = "idle" /\ ret.op = "read_block_vdif_frames"
WriteReturned == pc = "idle" /\ ret.op = "write_vdif_frames"

\* the caller has read an open read plan until read_next_block_vdif_frames
\* returned 0
Drained ==
    /\ NextBlockReturned /\ ret.val = 0
    /\ plan.exists /\ IsReadMode(plan) /\ ~plan.closed

\* parts that still hold a staged block
Staged == {i \in 1..n_sgprt(plan) : plan.sgprt[i].n_frames > 0}

NonDecreasing(s) == \A j \in 1..(Len(s) - 1) : TsLeq(s[j], s[j + 1])

\* C1: when a stream has been written without any failure, the write plan
\* closed, and a read plan on the same files read until
\* read_next_block_vdif_frames returns 0, the frames read are the frames
\* written, in the order in which they were written.
C1_RoundTrip == (Drained /\ nfail = 0) => got = wrote

\* what the code does guarantee at the junction of two blocks a, b that one
\* call returns one after the other: b starts no earlier than a starts, and
\* no later than one frame after the end of a within the last second of a
Junction(a, b) ==
    LET a1 == a[1]
        a2 == a[Len(a)]
        b1 == b[1]
    IN /\ TsLeq(a1, b1)
       /\ b1[1] <= a2[1]
       /\ (b1[1] = a2[1] => b1[2] <= a2[2] + 1)

\* the blocks of the files that sg_open accepts
BlocksOnDisk ==
    UNION {{sg_pkt_by_blk(disk[p], iblock) : iblock \in 0..(sg_total_blks(disk[p]) - 1)} :
              p \in ValidPaths}

C3_WriteAppendsAll ==
    (WriteReturned /\ ret.val >= 0 /\ nfail = 0) =>
        /\ ret.val = loc.n_frames
        /\ loc.appended = loc.n_frames
        /\ SameFrames(Payload, wrote)

\* a second call with the longest buffer has returned on a plan of two parts
C3_Witness ==
    /\ WriteReturned /\ ret.val >= 0 /\ nfail = 0
    /\ n_sgprt(plan) = 2
    /\ nwrites = 2
    /\ loc.n_frames = MaxFrames
    /\ \A i \in 1..2 : plan.sgprt[i].iblock >= 2

\* C4: the value write_vdif_frames returns is the number of frames its
\* workers have appended, also when a resize has failed under a worker.
C4_ReturnCountsAppended ==
    (WriteReturned /\ ret.val >= 0) => ret.val = loc.appended

\* a step that is a read call on a plan that is not in read mode, or a write
\* call on a plan that is not in write mode
MismatchCall ==
    /\ pc = "idle"
    /\ plan.exists /\ ~plan.closed
    /\ \/ read_next_block_vdif_frames_reject
       \/ \E iblock \in 0..MaxBlocks : read_block_vdif_frames_reject(iblock)
       \/ \E n_frames \in 1..MaxFrames :
             write_vdif_frames_reject(SubSeq(stream, 1, n_frames), n_frames)

\* C5: a read call on a write mode plan and a write call on a read mode plan
\* return -1, create no thread and leave the parts and the files as they are.
C5_ModeMismatch ==
    [][MismatchCall =>
          /\ pc' = "idle"
          /\ ret'.val = -1
          /\ live' = {}
          /\ plan' = plan
          /\ disk' = disk]_vars

\* C6 as stated: when make_sg_read_plan returns 0 there is a plan.
C6_PlanAfterZero ==
    (pc = "idle" /\ ret = [op |-> "make_sg_read_plan", val |-> 0]) => plan.exists

\* C6: make_sg_read_plan returns 0 exactly when no candidate file can be
\* opened, and then it creates no plan: there is no plan to read from.
C6_NoPlanAfterZero ==
    (pc = "idle" /\ ret.op = "make_sg_read_plan") =>
        /\ ret.val = Cardinality(ValidPaths)
        /\ (ret.val = 0 <=> ~plan.exists)

\* make_sg_read_plan has returned 0 on the files a write plan has left
C6_Witness ==
    /\ pc = "idle" /\ ret = [op |-> "make_sg_read_plan", val |-> 0]
    /\ made = 2
    /\ ValidPaths = {}

\* block iblock of every part that has one, in part order
BlocksAt(iblock) ==
    LET has == SelectSeq(plan.sgprt, LAMBDA p : iblock < p.sg_total_blks)
    IN [i \in 1..Len(has) |-> sg_pkt_by_blk(disk[has[i].name], iblock)]

\* C7: read_block_vdif_frames(plan, iblock) returns block iblock of every
\* part, in part order, and the number of their frames.
C7_ReadsBlockAtIndex ==
    (BlockReturned /\ ret.val >= 0 /\ plan.exists) =>
        /\ out = BlocksAt(loc.iblock)
        /\ ret.val = Len(Flatten(BlocksAt(loc.iblock)))

C10_ReadPlanSorted ==
    (pc = "idle" /\ ret.op = "make_sg_read_plan" /\ ret.val > 0) =>
        /\ plan.exists /\ IsReadMode(plan)
        /\ n_sgprt(plan) = ret.val
        /\ ret.val = Cardinality(ValidPaths)
        /\ {plan.sgprt[i].name : i \in 1..n_sgprt(plan)} = ValidPaths
        /\ \A i \in 1..(n_sgprt(plan) - 1) :
              TsLeq(<<plan.sgprt[i].first_secs, plan.sgprt[i].first_frame>>,
                    <<plan.sgprt[i + 1].first_secs, plan.sgprt[i + 1].first_frame>>)
        /\ \A i \in 1..n_sgprt(plan) :
              /\ plan.sgprt[i].iblock = 0
              /\ plan.sgprt[i].data_null
              /\ plan.sgprt[i].data_buf = <<>>
              /\ plan.sgprt[i].n_frames = 0

\* a plan of two parts in which the file of the second path comes first
C10_Witness ==
    /\ pc = "idle" /\ ret = [op |-> "make_sg_read_plan", val |-> 2]
    /\ plan.sgprt[1].name = 2
    /\ TsLess(<<plan.sgprt[1].first_secs, plan.sgprt[1].first_frame>>,
              <<plan.sgprt[2].first_secs, plan.sgprt[2].first_frame>>)

\* an open plan in write mode
OpenWritePlan == plan.exists /\ IsWriteMode(plan) /\ ~plan.closed

\* C11: in every state of an open write mode plan, every part has a valid
\* mapping (smi.start is the start of a mapped region) whose length
\* smi.eomem - smi.start is a multiple of WBLOCK_SIZE and is at least the
\* write offset smi.size, also after a resize has failed under a worker.
C11_WriteResize ==
    OpenWritePlan =>
        \A i \in 1..n_sgprt(plan) :
            /\ plan.sgprt[i].mapok
            /\ plan.sgprt[i].maplen % WBLOCK_SIZE = 0
            /\ plan.sgprt[i].smi_size <= plan.sgprt[i].maplen

\* the step that closes an open write mode plan
CloseWriteStep == pc = "idle" /\ OpenWritePlan /\ plan'.closed

\* C12: the step that closes a write plan removes the file of every part
\* whose write offset is 0 and keeps the file of every part that holds a
\* block; when no frame was ever handed to the plan, no file is left on disk
\* after the step.
C12_EmptyUnlink ==
    [][CloseWriteStep =>
          /\ \A i \in 1..n_sgprt(plan) :
                /\ plan.sgprt[i].smi_size = 0 => ~disk'[plan.sgprt[i].name].exists
                /\ plan.sgprt[i].iblock > 0 => disk'[plan.sgprt[i].name].exists
          /\ wrote = <<>> => \A q \in Paths : ~disk'[q].exists]_vars

\* close_sg_write_plan has just returned
WritePlanClosed == pc = "idle" /\ ret.op = "close_sg_write_plan" /\ plan.exists

RECURSIVE BlocksBytes(_, _, _)
\* bytes of the blocks k .. of a file: block header and payload of each
BlocksBytes(f, k, pkt_size) ==
    IF k >= sg_total_blks(f) THEN 0
    ELSE WBHT_SIZE + pkt_size * Len(sg_pkt_by_blk(f, k)) + BlocksBytes(f, k + 1, pkt_size)

BufferOf(p) == [data_buf |-> p.data_buf, n_frames |-> p.n_frames, data_null |-> p.data_null]

\* C14: a read_next_block_vdif_frames call creates no thread for a part that
\* holds staged frames, and leaves the part as it is while its threads run;
\* when the call returns, every block that was staged after the join has
\* either been copied out or is still staged, with the same buffer and frame
\* count, and the block counter of a part that came into the call staged has
\* not moved.
C14_Retention ==
    [][/\ (pc = "idle" /\ pc' = "read_next_block") =>
             \A i \in Staged : i \notin mask' /\ i \notin live'
       /\ (pc = "read_next_block" /\ pc' = "read_next_block") =>
             \A i \in Staged \ mask : plan'.sgprt[i] = plan.sgprt[i]
       /\ (pc = "read_next_block" /\ pc' = "idle") =>
             /\ Cardinality(Staged) = Len(out') + Cardinality(Staged')
             /\ \A i \in Staged' : BufferOf(plan'.sgprt[i]) = BufferOf(plan.sgprt[i])
             /\ \A i \in Staged \ mask : plan'.sgprt[i].iblock = plan.sgprt[i].iblock]_vars

\* a block has been left staged by two calls in a row, without a thread in
\* the second one, and has been returned by the third
C14_Witness ==
    /\ NextBlockReturned /\ nrandom = 0
    /\ \E k \in 1..(Len(hist) - 2) :
          \E i \in hist[k].kept \cap hist[k + 1].kept :
              /\ i \notin hist[k + 1].created
              /\ i \notin hist[k + 2].created
              /\ i \in hist[k + 2].merged

RECURSIVE SumOver(_, _)
\* sum of f[i] for i in S
SumOver(f, S) ==
    IF S = {} THEN 0
    ELSE LET i == CHOOSE j \in S : TRUE IN f[i] + SumOver(f, S \ {i})

\* sum of the block counters of the parts, and number of blocks returned so far
BlockSum == SumOver([i \in 1..n_sgprt(plan) |-> plan.sgprt[i].iblock], 1..n_sgprt(plan))
Emitted == SumOver([k \in 1..Len(hist) |-> Len(hist[k].blocks)], 1..Len(hist))

\* a call that read one block of every part and returned them all
FullStep(h) ==
    /\ h.created = 1..n_sgprt(plan)
    /\ Len(h.blocks) = n_sgprt(plan)
    /\ h.kept = {}

\* the plan has only been read with read_next_block_vdif_frames, and every
\* call has returned frames
AfterReads ==
    /\ NextBlockReturned /\ ret.val > 0
    /\ plan.exists /\ IsReadMode(plan) /\ ~plan.closed
    /\ nrandom = 0

\* C15 as stated: after k calls that returned frames, the block counters add
\* up to k times the number of parts exactly when every call returned one
\* block of every part and left nothing staged.
C15_SumIffFull ==
    AfterReads =>
        (BlockSum = Len(hist) * n_sgprt(plan) <=> \A k \in 1..Len(hist) : FullStep(hist[k]))

\* C15: after k calls that returned frames, the block counters add up to the
\* number of blocks read: the blocks returned so far and the blocks that are
\* still staged.  When every call returned one block of every part the sum is
\* k times the number of parts; the sum is k times the number of parts with
\* no block staged only when every call did so.
C15_SumCountsRead ==
    AfterReads =>
        /\ BlockSum = Emitted + Cardinality(Staged)
        /\ (\A k \in 1..Len(hist) : FullStep(hist[k])) => BlockSum = Len(hist) * n_sgprt(plan)
        /\ (BlockSum = Len(hist) * n_sgprt(plan) /\ Staged = {}) =>
              \A k \in 1..Len(hist) : FullStep(hist[k])

\* two calls have each returned one block of each of two parts
C15_Witness ==
    /\ AfterReads
    /\ n_sgprt(plan) = 2
    /\ Len(hist) = 2
    /\ \A k \in 1..2 : FullStep(hist[k])
    /\ BlockSum = 4

\* C16: between two public calls no worker thread is running: when
\* read_next_block_vdif_frames, read_block_vdif_frames or write_vdif_frames
\* has returned, whatever the value, every thread it created has finished.
C16_Barrier == pc = "idle" => live = {}

\* read_block_vdif_frames has returned on a plan of two parts, after
\* read_next_block_vdif_frames calls with two threads and a write call with
\* two threads in a cycle
C16_Witness ==
    /\ BlockReturned
    /\ n_sgprt(plan) = 2
    /\ \E k \in 1..Len(hist) : hist[k].created = {1, 2}
    /\ Len(wrote) >= 2 * FramesPerBlock
    /\ ret.val > 0

\* a step that creates threads: the launch loop of a read call or of a
\* write cycle
LaunchStep ==
    \/ pc = "idle" /\ pc' \in {"read_next_block", "read_block"}
    \/ pc = "write_vdif_frames" /\ pc' = "write_vdif_frames"
          /\ loc'.frames_written > loc.frames_written

\* C17: threads are created only when no thread is running, the threads of
\* one launch are bound to pairwise distinct parts (a write cycle that
\* creates thread_count threads hands out thread_count parts), and a running
\* thread is one of the threads of the last launch.
C17_ExclusiveOwnership ==
    [][/\ LaunchStep => (live = {} /\ live' = mask')
       /\ (LaunchStep /\ pc' = "write_vdif_frames") =>
             loc'.thread_count = Cardinality(mask')
       /\ live' \subseteq mask']_vars

\* the two writers of a cycle that starts at the second part are running
C17_Witness ==
    /\ pc = "write_vdif_frames"
    /\ loc.first_sg_idx = 1
    /\ loc.thread_count = 2
    /\ live = {1, 2}

\* the blocks returned by the calls so far, in the order of their return,
\* each with the number of its call
EmittedBlocks ==
    Flatten([k \in 1..Len(hist) |->
                [x \in 1..Len(hist[k].blocks) |-> [call |-> k, frames |-> hist[k].blocks[x]]]])

\* C18: when the time stamps of every file are in non-decreasing order, no
\* block returned by a read_next_block_vdif_frames call starts earlier than
\* a block returned by an earlier call.
C18_CrossCallOrder ==
    (nrandom = 0 /\ \A p \in ValidPaths : NonDecreasing(PayloadOf(disk[p]))) =>
        \A a, b \in 1..Len(EmittedBlocks) :
            EmittedBlocks[a].call < EmittedBlocks[b].call =>
                ~TsLess(EmittedBlocks[b].frames[1], EmittedBlocks[a].frames[1])

\* the step that ends a read_next_block_vdif_frames call
NextBlockJoinStep == pc = "read_next_block" /\ pc' = "idle"

\* the parts whose staged block the step copies out
MergedNow == {i \in Staged : plan'.sgprt[i].n_frames = 0}

\* a part that has read all its blocks and holds no staged frames
DeadPart(p) == p.iblock = p.sg_total_blks /\ p.n_frames = 0

\* C19 as stated: a part whose block counter has reached its number of
\* blocks adds no frames to what a later read_next_block_vdif_frames call
\* returns.
C19_DeadSilent ==
    [][NextBlockJoinStep =>
          \A i \in 1..n_sgprt(plan) :
              plan.sgprt[i].iblock = plan.sgprt[i].sg_total_blks => i \notin MergedNow]_vars

\* C19: a part whose block counter has reached its number of blocks and that
\* holds no staged frames stays as it is while the plan is open: no
\* read_next_block_vdif_frames call creates a thread for it or copies frames
\* of it; a part whose block counter has reached its number of blocks is not
\* read again, and when it still holds its last block staged, the call that
\* copies the block out leaves it dead.
C19_DeadWhenDrained ==
    [][(plan.exists /\ plan'.exists /\ ~plan'.closed) =>
          \A i \in 1..n_sgprt(plan) :
              /\ DeadPart(plan.sgprt[i]) =>
                    /\ plan'.sgprt[i] = plan.sgprt[i]
                    /\ pc' = "read_next_block" => i \notin mask'
                    /\ i \notin MergedNow
              /\ plan.sgprt[i].iblock = plan.sgprt[i].sg_total_blks =>
                    /\ plan'.sgprt[i].iblock = plan.sgprt[i].iblock
                    /\ pc' = "read_next_block" => i \notin mask'
                    /\ (NextBlockJoinStep /\ i \in MergedNow) => DeadPart(plan'.sgprt[i])]_vars

\* a call has returned frames of one part of two while the other one was dead
C19_Witness ==
    /\ NextBlockReturned /\ ret.val > 0
    /\ n_sgprt(plan) = 2
    /\ Len(hist) >= 2
    /\ \E i \in 1..2 :
          /\ DeadPart(plan.sgprt[i])
          /\ i \in hist[Len(hist) - 1].merged
          /\ i \notin hist[Len(hist) - 1].kept
          /\ i \notin hist[Len(hist)].created
          /\ i \notin hist[Len(hist)].merged

\* a step of a read_next_block_vdif_frames call
NextBlockStep ==
    \/ pc = "idle" /\ pc' = "read_next_block"
    \/ pc = "read_next_block" /\ pc' \in {"read_next_block", "idle"}

StagingOK(p) ==
    \/ p.n_frames = 0 /\ p.data_null /\ p.data_buf = <<>>
    \/ p.n_frames > 0 /\ ~p.data_null /\ Len(p.data_buf) = p.n_frames

HeadersIn(f) == Cardinality({k \in DOMAIN f.items : f.items[k].t = "wbht"})

\* C22: between the calls on an open write mode plan, also after calls in
\* which a worker's append has failed, the block counter of every part is the
\* number of write block headers that have been appended to the part's file.
C22_BlockIndexCountsHeaders ==
    (pc = "idle" /\ OpenWritePlan) =>
        \A i \in 1..n_sgprt(plan) :
            plan.sgprt[i].iblock = HeadersIn(disk[plan.sgprt[i].name])

\* C23: between the calls on an open write mode plan under which no system
\* call has failed, the block counters of two parts differ by one at most,
\* and no part has a larger block counter than a part before it in the plan.
C23_Balance ==
    (pc = "idle" /\ OpenWritePlan /\ nfail = 0) =>
        \A i, j \in 1..n_sgprt(plan) :
            /\ plan.sgprt[i].iblock - plan.sgprt[j].iblock <= 1
            /\ i < j => plan.sgprt[i].iblock >= plan.sgprt[j].iblock

\* a second call that started at the second part of two has returned
C23_Witness ==
    /\ WriteReturned /\ OpenWritePlan /\ nfail = 0
    /\ nwrites = 2
    /\ loc.first_sg_idx = 1
    /\ n_sgprt(plan) = 2
    /\ plan.sgprt[1].iblock = 2
    /\ plan.sgprt[2].iblock = 1

\* a step that launches one cycle of a write call
CycleStep ==
    /\ pc = "write_vdif_frames" /\ pc' = "write_vdif_frames"
    /\ loc'.frames_written > loc.frames_written

\* the smaller of two numbers
Least(a, b) == IF a < b THEN a ELSE b

\* the frames of chunk j of the buffer of the call: FramesPerBlock frames from
\* frame j * FramesPerBlock on, or what is left of the n_frames frames
ChunkOf(l, j) ==
    SubSeq(l.vdif_buf, j * FramesPerBlock + 1,
           Least((j + 1) * FramesPerBlock, l.n_frames))

\* C24: in one write call the chunk j of the buffer goes to the part
\* (first_sg_idx + j) mod n_sgprt; chunk j is the FramesPerBlock frames from
\* frame j * FramesPerBlock on, the last chunk is what is left, and when the
\* call returns every frame of the buffer has been handed out.
C24_Striping ==
    [][/\ CycleStep =>
            LET done == loc.frames_written \div FramesPerBlock
            IN /\ loc.frames_written = done * FramesPerBlock
               /\ loc'.frames_written =
                     Least(loc.n_frames,
                           loc.frames_written + n_sgprt(plan) * FramesPerBlock)
               /\ (loc'.thread_count - 1) * FramesPerBlock
                     < loc'.frames_written - loc.frames_written
               /\ loc'.frames_written - loc.frames_written
                     <= loc'.thread_count * FramesPerBlock
               /\ \A ithread \in 0..(loc'.thread_count - 1) :
                     LET j == done + ithread
                         idx == ((loc.first_sg_idx + j) % n_sgprt(plan)) + 1
                         part == plan'.sgprt[idx]
                     IN /\ idx \in live'
                        /\ part.n_frames = Len(ChunkOf(loc, j))
                        /\ SubSeq(part.data_buf, 1, part.n_frames) = ChunkOf(loc, j)
       /\ (pc = "write_vdif_frames" /\ pc' = "idle") =>
             (loc.frames_written = loc.n_frames /\ ret'.val = loc.n_frames)]_vars

\* a call of three frames that starts at the second part of two: the first
\* part holds the second chunk, which is the one frame left
C24_Witness ==
    /\ pc = "write_vdif_frames"
    /\ n_sgprt(plan) = 2
    /\ loc.first_sg_idx = 1
    /\ loc.n_frames = 3
    /\ live = {1, 2}
    /\ plan.sgprt[2].n_frames = FramesPerBlock
    /\ plan.sgprt[1].n_frames = 1
    /\ plan.sgprt[1].data_buf[1] = loc.vdif_buf[3]

\* the layout of the file of a part: empty before the first block; then one
\* file header at offset 0, and after it, for k = 0, 1, 2, ..., a block
\* header with blocknum k followed by the payload of block k
LayoutOK(p, f) ==
    LET items == f.items
        n == (Len(items) - 1) \div 2
    IN IF items = <<>> THEN p.iblock = 0
       ELSE /\ Len(items) = 1 + 2 * n
            /\ n = p.iblock
            /\ items[1].t = "fht"
            /\ items[1].bytes = FHT_SIZE
            /\ items[1].packet_size = p.pkt_size
            /\ \A x \in 2..Len(items) : items[x].t # "fht"
            /\ \A k \in 0..(n - 1) :
                  LET wbht == items[2 + 2 * k]
                      data == items[3 + 2 * k]
                  IN /\ wbht.t = "wbht"
                     /\ wbht.bytes = WBHT_SIZE
                     /\ wbht.blocknum = k
                     /\ data.t = "data"
                     /\ Len(data.frames) > 0
                     /\ wbht.wb_size = p.pkt_size * Len(data.frames) + WBHT_SIZE
                     /\ data.bytes = wbht.wb_size - WBHT_SIZE

\* C25: while no system call has failed, the file of every part of an open
\* write plan is empty or holds one file header at offset 0 followed by the
\* blocks 0, 1, 2, ... in order, each a block header with
\* wb_size = pkt_size * frames + WBHT_SIZE followed by pkt_size * frames
\* bytes of payload.
C25_FileLayout ==
    (OpenWritePlan /\ nfail = 0) =>
        \A i \in 1..n_sgprt(plan) : LayoutOK(plan.sgprt[i], disk[plan.sgprt[i].name])

\* the file of the first part holds two blocks, the second one shorter than
\* the first
C25_Witness ==
    /\ OpenWritePlan /\ nfail = 0 /\ pc = "idle"
    /\ n_sgprt(plan) = 2
    /\ plan.sgprt[1].iblock = 2
    /\ Len(disk[plan.sgprt[1].name].items) = 5
    /\ disk[plan.sgprt[1].name].items[4].blocknum = 1
    /\ Len(disk[plan.sgprt[1].name].items[3].frames) = FramesPerBlock
    /\ Len(disk[plan.sgprt[1].name].items[5].frames) = 1

\* the merger has just returned
MergerReturned == ret.op = "map_sg_parts_contiguous"

\* the parts with and without a staged block
LiveParts == {i \in 1..n_sgprt(plan) : plan.sgprt[i].n_frames > 0}
DeadParts == {i \in 1..n_sgprt(plan) : plan.sgprt[i].n_frames = 0}

Abs(x) == IF x < 0 THEN -x ELSE x

\* C26: on a plan of n parts with a live part map_sg_parts_contiguous
\* returns k and a mapping of length n; the absolute values of the mapping
\* are the numbers 1..n, each once; its first k entries are positive and
\* name live parts, the other entries are negative, every dead part is among
\* them, and every dead part comes after every live part.
C26_MergerShape ==
    (MergerReturned /\ LiveParts # {}) =>
        LET n == n_sgprt(plan)
            k == ret.val
            mapping == ret.mapping
        IN /\ DOMAIN mapping = 1..n
           /\ k \in 0..n
           /\ \A x \in 1..n : Cardinality({i \in 1..n : Abs(mapping[i]) = x}) = 1
           /\ \A i \in 1..k : mapping[i] > 0 /\ mapping[i] \in LiveParts
           /\ \A i \in (k + 1)..n : mapping[i] < 0
           /\ \A d \in DeadParts : \E i \in (k + 1)..n : mapping[i] = -d
           /\ \A i, j \in 1..n :
                 (Abs(mapping[i]) \in DeadParts /\ Abs(mapping[j]) \in LiveParts) => j < i

\* three parts, the second one dead, the two live ones not contiguous: one
\* positive entry, then the live part that is left out, then the dead part
C26_Witness ==
    /\ MergerReturned
    /\ n_sgprt(plan) = MergeParts
    /\ DeadParts = {2}
    /\ ret.val = 1
    /\ ret.mapping = <<3, -1, -2>>

\* the live part at place i of the mapping the merger has returned
MappedPart(i) == plan.sgprt[Abs(ret.mapping[i])]

\* C27: in the mapping map_sg_parts_contiguous returns, the live parts come
\* in non-decreasing order of the time stamp (secs, frame) of the first
\* frame of their block; each of the first k - 1 pairs of neighbours passes
\* test_sg_parts_contiguous, and when k is less than the number of live
\* parts the pair at places k and k + 1 does not.
C27_MergerChain ==
    (MergerReturned /\ LiveParts # {}) =>
        LET nlive == Cardinality(LiveParts)
            k == ret.val
        IN /\ \A i \in 1..nlive : Abs(ret.mapping[i]) \in LiveParts
           /\ \A i \in 1..(nlive - 1) :
                 TsLeq(FIRST_VDIF(MappedPart(i)), FIRST_VDIF(MappedPart(i + 1)))
           /\ k \in 1..nlive
           /\ \A i \in 1..(k - 1) :
                 test_sg_parts_contiguous(MappedPart(i), MappedPart(i + 1))
           /\ k < nlive =>
                 ~test_sg_parts_contiguous(MappedPart(k), MappedPart(k + 1))

\* three live parts that the sort reorders; the first two of the sorted
\* list are contiguous, the third is not contiguous with the second
C27_Witness ==
    /\ MergerReturned
    /\ LiveParts = 1..MergeParts
    /\ ret.val = 2
    /\ ret.mapping = <<2, 3, -1>>
    /\ TsLess(FIRST_VDIF(plan.sgprt[2]), FIRST_VDIF(plan.sgprt[3]))
    /\ TsLess(FIRST_VDIF(plan.sgprt[3]), FIRST_VDIF(plan.sgprt[1]))

\* C28: at the end of a read_next_block_vdif_frames call the merger finds no
\* contiguous block exactly when no part holds a staged block, and at least
\* one when a part does; when it finds none the call returns 0 and leaves
\* data_buf, n_frames and iblock of every part as the threads and their join
\* have left them.
C28_EmptyContiguous ==
    [][NextBlockJoinStep =>
          LET fetched == join_read_threads(plan.sgprt, mask)
              k == map_sg_parts_contiguous(fetched).n_contiguous_blocks
              anylive == \E i \in 1..n_sgprt(plan) : fetched[i].n_frames > 0
          IN /\ k = 0 <=> ~anylive
             /\ anylive => (k >= 1 /\ ret'.val > 0)
             /\ k = 0 => /\ ret'.val = 0
                         /\ plan'.sgprt = fetched
                         /\ \A i \in 1..n_sgprt(plan) :
                               /\ plan'.sgprt[i].data_buf = plan.sgprt[i].data_buf
                               /\ plan'.sgprt[i].n_frames = plan.sgprt[i].n_frames
                               /\ plan'.sgprt[i].iblock = plan.sgprt[i].iblock]_vars

\* a call on a plan of two parts has returned 0 after an earlier call has
\* returned frames: every part has read all its blocks and holds none
C28_Witness ==
    /\ NextBlockReturned
    /\ ret.val = 0
    /\ n_sgprt(plan) = 2
    /\ Len(hist) >= 1
    /\ \A i \in 1..2 : DeadPart(plan.sgprt[i])

\* the contiguity test has just returned; TestedA and TestedB are its
\* arguments
TestReturned == ret.op = "test_sg_parts_contiguous"
TestedA == plan.sgprt[ret.a]
TestedB == plan.sgprt[ret.b]

\* the rule for b to follow a, on the time stamps A1 and A2 of the first and
\* last frame of a and B1 of the first frame of b, each <<secs, df>>
Adjacent(A1, A2, B1) ==
    \/ A1[1] = A2[1] /\ B1[1] = A1[1] /\ A1[2] <= B1[2] /\ B1[2] <= A2[2] + 1
    \/ /\ A1[1] < A2[1]
       /\ \/ B1[1] = A1[1] /\ B1[2] >= A1[2]
          \/ B1[1] = A2[1] /\ B1[2] <= A2[2] + 1
          \/ A1[1] < B1[1] /\ B1[1] < A2[1]

OtherSecond(a, b) ==
    /\ FIRST_VDIF(a)[1] = LAST_VDIF(a)[1]
    /\ FIRST_VDIF(b)[1] # FIRST_VDIF(a)[1]

\* C30 as stated: when a lies within one second and b starts in another
\* second, test_sg_parts_contiguous(a, b) returns 0, and the blocks a and b
\* are never both among the blocks one merge returns.
C30_NeverMergedTogether ==
    /\ (TestReturned /\ OtherSecond(TestedA, TestedB)) => ret.val = 0
    /\ MergerReturned =>
          \A i, j \in 1..ret.val :
              i < j => ~OtherSecond(MappedPart(i), MappedPart(j))

\* C30: when a lies within one second and b starts in another second,
\* test_sg_parts_contiguous(a, b) returns 0, also when the first frame of b
\* is the frame after the last frame of a, and b is never the block that
\* follows a among the blocks one merge returns.
C30_CrossSecondRejected ==
    /\ (TestReturned /\ OtherSecond(TestedA, TestedB)) => ret.val = 0
    /\ MergerReturned =>
          \A i \in 1..(ret.val - 1) :
              ~OtherSecond(MappedPart(i), MappedPart(i + 1))

\* the test has refused a block b whose first frame is the frame after the
\* last frame of a, the last frame of its second
C30_Witness ==
    /\ TestReturned
    /\ ret.val = 0
    /\ OtherSecond(TestedA, TestedB)
    /\ LAST_VDIF(TestedA)[2] = FPS - 1
    /\ FIRST_VDIF(TestedB) = NextStamp(LAST_VDIF(TestedA))

\* C31: the frames a read_next_block_vdif_frames call copies to its output
\* buffer are no more than the frames the buffer has been allocated for,
\* when no staged block holds more frames than sg_wr_pkts of its part.
C31_OutputFits ==
    [][(NextBlockJoinStep
          /\ \A i \in 1..n_sgprt(plan) : plan.sgprt[i].n_frames <= plan.sgprt[i].sg_wr_pkts)
       => /\ ret'.val <= loc.frames_estimate
          /\ Len(Flatten(out')) <= loc.frames_estimate]_vars

\* a call that created a thread for one part of two has returned the block
\* that thread read together with the block the other part kept from an
\* earlier call, and the two fill the buffer
C31_Witness ==
    /\ NextBlockReturned
    /\ n_sgprt(plan) = 2
    /\ Len(hist) >= 2
    /\ hist[Len(hist)].merged = {1, 2}
    /\ Cardinality(hist[Len(hist)].created) = 1
    /\ ret.val = hist[Len(hist)].val
    /\ ret.val = loc.frames_estimate

\* the staged frames of the parts at places 1..k of a mapping, in the order
\* of the mapping
RECURSIVE StagedInOrder(_, _, _)
StagedInOrder(sgprt, mapping, k) ==
    IF k = 0 THEN <<>>
    ELSE StagedInOrder(sgprt, mapping, k - 1)
         \o SubSeq(sgprt[mapping[k]].data_buf, 1, sgprt[mapping[k]].n_frames)

\* C32: a read_next_block_vdif_frames call returns the sum of n_frames of
\* the k parts at the head of the mapping; its output is the staged blocks
\* of those parts one after the other in the order of the mapping; after the
\* call each of them has n_frames = 0 and no buffer, and every other part is
\* as the join of the threads has left it.
C32_MergeStep ==
    [][NextBlockJoinStep =>
          LET fetched == join_read_threads(plan.sgprt, mask)
              m == map_sg_parts_contiguous(fetched)
              k == m.n_contiguous_blocks
              head == {m.mapping[i] : i \in 1..k}
          IN /\ ret'.val = SumOver([i \in 1..k |-> fetched[m.mapping[i]].n_frames], 1..k)
             /\ Flatten(out') = StagedInOrder(fetched, m.mapping, k)
             /\ Len(Flatten(out')) = ret'.val
             /\ \A i \in head : /\ plan'.sgprt[i].n_frames = 0
                                /\ plan'.sgprt[i].data_null
                                /\ plan'.sgprt[i].data_buf = <<>>
             /\ \A i \in (1..n_sgprt(plan)) \ head : plan'.sgprt[i] = fetched[i]]_vars

\* a call has returned two blocks of different length, the earlier one
\* first, and both parts have given their buffers up
C32_Witness ==
    /\ NextBlockReturned
    /\ n_sgprt(plan) = 2
    /\ Len(out) = 2
    /\ Len(out[1]) # Len(out[2])
    /\ TsLess(out[1][1], out[2][1])
    /\ ret.val = Len(out[1]) + Len(out[2])
    /\ \A i \in 1..2 : plan.sgprt[i].n_frames = 0 /\ plan.sgprt[i].data_null

\* the blocks of the files of the plan, file after file, and the blocks the
\* calls have returned so far
PlanBlocks ==
    Flatten([i \in 1..n_sgprt(plan) |->
                [k \in 1..plan.sgprt[i].sg_total_blks |->
                    sg_pkt_by_blk(disk[plan.sgprt[i].name], k - 1)]])
ReturnedBlocks == Flatten([k \in 1..Len(hist) |-> hist[k].blocks])

\* every block of every file of the plan has been returned once
DrainedAll == Drained /\ SameFrames(ReturnedBlocks, PlanBlocks) /\ Staged = {}

\* C33: a caller that goes on calling read_next_block_vdif_frames on a read
\* plan, with no allocation failing, comes to a call that returns 0; at no
\* time has a block been returned more often than the files hold it, and
\* when a call returns 0 every block of every file has been returned once
\* and no part holds a block back.
C33_DrainLiveness ==
    /\ [](plan.exists => \A b \in Range(ReturnedBlocks) :
                            Count(b, ReturnedBlocks) <= Count(b, PlanBlocks))
    /\ [](Drained => DrainedAll)
    /\ <>(nfail > 0 \/ ValidPaths = {} \/ DrainedAll)

\* a call has returned 0 after three calls that returned frames, of which
\* one left a block it had read with its part
C33_Witness ==
    /\ DrainedAll
    /\ n_sgprt(plan) = 2
    /\ Len(hist) >= 3
    /\ \E k \in 1..Len(hist) : hist[k].kept # {}
    /\ Len(PlanBlocks) >= 3

\* s is the head of t
IsPrefix(s, t) == Len(s) <= Len(t) /\ SubSeq(t, 1, Len(s)) = s

\* C34: what has been appended to a file stays where it is and as it is: no
\* step takes an item away from a file or changes one, whether it appends,
\* grows the mapped region, or cuts the file to the write offset on close,
\* and the file never ends before the end of its last item.
C34_AppendOnly ==
    [][\A q \in Paths :
          /\ IsPrefix(disk[q].items, disk'[q].items)
          /\ disk'[q].items # <<>> =>
                /\ disk'[q].exists
                /\ disk'[q].len >= SumBytes(disk'[q].items)]_vars

\* a write plan has been closed without a failure; a file of it holds two
\* blocks, more than the region first mapped, and ends with the last of them
C34_Witness ==
    /\ plan.exists /\ plan.closed /\ IsWriteMode(plan) /\ nfail = 0
    /\ \E q \in Paths :
          /\ Len(disk[q].items) = 5
          /\ SumBytes(disk[q].items) > INITIAL_SIZE_IN_BLOCKS * WBLOCK_SIZE
          /\ disk[q].len = SumBytes(disk[q].items)

\* the step of free_sg_plan, and the step that ends a write_vdif_frames call
FreeStep == plan.exists /\ ~plan'.exists
WriteReturnStep == pc = "write_vdif_frames" /\ pc' = "idle"

\* s is the tail of t
IsSuffix(s, t) == Len(s) <= Len(t) /\ SubSeq(t, Len(t) - Len(s) + 1, Len(t)) = s

\* C35: free_sg_plan on a read mode plan frees the buffer of every part
\* that holds one; on a write mode plan it frees no data_buf, and data_buf
\* of the parts written by the last cycle of a write_vdif_frames call points
\* into the buffer of the caller when the call returns.
C35_FreeOwnership ==
    [][/\ (FreeStep /\ IsReadMode(plan)) =>
             ret'.freed = {i \in 1..n_sgprt(plan) : ~plan.sgprt[i].data_null}
       /\ (FreeStep /\ IsWriteMode(plan)) => ret'.freed = {}
       /\ WriteReturnStep =>
             \A i \in mask : /\ ~plan'.sgprt[i].data_null
                             /\ IsSuffix(plan'.sgprt[i].data_buf, loc.vdif_buf)]_vars

\* a read plan on files that have been written has been freed while a part
\* held a block
C35_Witness ==
    /\ ret.op = "free_sg_plan"
    /\ ret.freed # {}
    /\ wrote # <<>>
    /\ made = 2

\* C36: a write_vdif_frames call that has entered its write loop leaves it:
\* it returns, or it faults.
C36_WriteTerminates ==
    (pc = "write_vdif_frames") ~> (pc \in {"idle", "crashed"})

\* a step of a read_block_vdif_frames call
ReadBlockStep == pc = "read_block" \/ pc' = "read_block"

\* C37: no step of a read_block_vdif_frames call changes iblock, data_buf or
\* n_frames of a part of the plan.
C37_ReadBlockPure ==
    [][ReadBlockStep =>
          \A i \in 1..n_sgprt(plan) :
              /\ plan'.sgprt[i].iblock = plan.sgprt[i].iblock
              /\ plan'.sgprt[i].data_buf = plan.sgprt[i].data_buf
              /\ plan'.sgprt[i].data_null = plan.sgprt[i].data_null
              /\ plan'.sgprt[i].n_frames = plan.sgprt[i].n_frames]_vars

\* a close of the plan with the function of the other mode
WrongModeClose ==
    \/ (IsWriteMode(plan) /\ close_sg_read_plan)
    \/ (IsReadMode(plan) /\ \E outcome \in Outcomes : close_sg_write_plan(outcome))

\* C38: a close with the function of the wrong mode closes no part of the
\* plan, unlinks no file and resizes no file: plan and files stay as they are.
C38_WrongModeCloseNoOp ==
    [][WrongModeClose => (plan' = plan /\ disk' = disk)]_vars

\* the write loop is at the head of a cycle: the threads of the last cycle are
\* joined and frames of the call are left
CycleReady ==
    /\ pc = "write_vdif_frames"
    /\ threads_joined
    /\ loc.frames_written < loc.n_frames

\* the launch loop of the cycle that the write loop runs from here
CycleToRun ==
    LaunchCycle([sgprt |-> plan.sgprt, frames_written |-> loc.frames_written,
                 thread_count |-> 0, spawned |-> {}], loc, 0)

\* C39: every cycle of the write loop creates at least one and at most
\* n_sgprt threads, each of them at an index of its own below n_sgprt, and
\* the threads that the cycle waits for are the threads it has created.
C39_ThreadCount ==
    /\ [](CycleReady =>
            /\ CycleToRun.thread_count >= 1
            /\ CycleToRun.thread_count <= n_sgprt(plan)
            /\ CycleToRun.spawned \subseteq 1..n_sgprt(plan)
            /\ Cardinality(CycleToRun.spawned) = CycleToRun.thread_count)
    /\ [][write_vdif_frames_cycle =>
            /\ live' = mask'
            /\ Cardinality(mask') = loc'.thread_count]_vars

====
